---- MODULE Spec2Model ----
(***************************************************************************)
(* Model of src/preprocess.py: the batch enrichment pipeline process_posts *)
(* with its helpers clean_json_response, extract_metadata and              *)
(* get_unified_tags.  The language model is an oracle that may answer any  *)
(* text; a response is a sequence of lexical tokens ("{", "}", free text,  *)
(* and `"key": value` members), a post is a function from keys to values.  *)
(***************************************************************************)
EXTENDS Integers, Sequences, FiniteSets, TLC

VARIABLES posts, idx, enriched_posts, unified_tags, ridx, outfile, pc, error,
          calls, outcome, enriched_src, metadata_of, merged, unify_returned,
          write_attempts

vars == <<posts, idx, enriched_posts, unified_tags, ridx, outfile, pc, error,
          calls, outcome, enriched_src, metadata_of, merged, unify_returned,
          write_attempts>>

(***************************************************************************)
(* posts          the loaded sequence (line 11)                            *)
(* idx            position of `for post in posts` (line 17), 1-based       *)
(* enriched_posts the list built at lines 16-26 and rewritten at 41-44     *)
(* unified_tags   the mapping returned at line 36                          *)
(* ridx           position of `for post in enriched_posts` (line 41)       *)
(* outfile        the destination file (lines 47-48)                       *)
(* pc, error      control position of process_posts; the diagnostic raised *)
(* calls          log of chain.invoke calls (lines 77 and 111)             *)
(* outcome        per visited post: "skipped", "failed" or "ok"            *)
(* enriched_src   for each enriched post, its position in posts            *)
(* metadata_of    for each enriched post, the object extract_metadata gave *)
(* merged         for each enriched post, post | metadata as of line 25    *)
(* unify_returned get_unified_tags returned a mapping                      *)
(* write_attempts number of open(..., mode="w") calls (line 47)            *)
(***************************************************************************)

\* Largest number of posts in the loaded batch.
MaxPosts == 2

----------------------------------------------------------------------------
\* Inputs

\* Records that the raw posts file may hold.
PostVariants ==
    { [caption |-> "Great trip with family!"],
      [text |-> "Job search tips"],
      [caption |-> "Ghar ki yaad", language |-> "Hinglish", tags |-> <<"Trip">>] }

Batches == UNION { [1..n -> PostVariants] : n \in 0..MaxPosts }

\* Tokens that are a `"key": value` member of a JSON object.
FieldTokens ==
    { "lc1", "lc2", "langEn", "langHi", "langFr",
      "tagsNone", "tagsFamily", "tagsTravelTrip", "tags3",
      "Travel>Adventure", "Trip>Adventure", "Travel>Trip", "Family>Couples" }

FieldKey(tok) ==
    CASE tok \in {"lc1", "lc2"} -> "line_count"
      [] tok \in {"langEn", "langHi", "langFr"} -> "language"
      [] tok \in {"tagsNone", "tagsFamily", "tagsTravelTrip", "tags3"} -> "tags"
      [] tok \in {"Travel>Adventure", "Travel>Trip"} -> "Travel"
      [] tok = "Trip>Adventure" -> "Trip"
      [] tok = "Family>Couples" -> "Family"

FieldVal(tok) ==
    CASE tok = "lc1" -> 1
      [] tok = "lc2" -> 2
      [] tok = "langEn" -> "English"
      [] tok = "langHi" -> "Hinglish"
      [] tok = "langFr" -> "French"
      [] tok = "tagsNone" -> <<>>
      [] tok = "tagsFamily" -> <<"Family">>
      [] tok = "tagsTravelTrip" -> <<"Travel", "Trip">>
      [] tok = "tags3" -> <<"Travel", "Trip", "Family">>
      [] tok \in {"Travel>Adventure", "Trip>Adventure"} -> "Adventure"
      [] tok = "Travel>Trip" -> "Trip"
      [] tok = "Family>Couples" -> "Couples"

\* Answers the oracle may give to the extraction prompt.
ExtractResponses ==
    { <<"txt", "{", "lc1", "langEn", "tagsTravelTrip", "}", "txt">>,
      <<"{", "lc2", "langHi", "tagsFamily", "}">>,
      <<"{", "lc1", "langEn", "tagsNone", "}">>,
      <<"txt">>,
      <<"}", "txt", "{">>,
      <<"{", "langFr", "tags3", "}">>,
      <<"{", "lc1", "langEn", "}">>,
      <<"{", "lc1", "}", "txt", "{", "tagsFamily", "}">> }

\* Answers the oracle may give to the unification prompt.
UnifyResponses ==
    { <<"txt", "{", "Travel>Adventure", "Trip>Adventure", "}", "txt">>,
      <<"{", "Travel>Trip", "Trip>Adventure", "}">>,
      <<"{", "Family>Couples", "}">>,
      <<"{", "}">>,
      <<"txt">>,
      <<"{", "Travel>Adventure">>,
      <<"{", "Travel>Trip", "Travel>Adventure", "}">> }

----------------------------------------------------------------------------
\* clean_json_response

EmptyMap == [k \in {} |-> ""]

Range(s) == { s[n] : n \in 1..Len(s) }

Max(a, b) == IF a >= b THEN a ELSE b
Min(a, b) == IF a <= b THEN a ELSE b

\* str.find: 0-based index of the first occurrence, -1 when absent.
Find(response, ch) ==
    IF \E n \in 1..Len(response) : response[n] = ch
    THEN (CHOOSE n \in 1..Len(response) :
              /\ response[n] = ch
              /\ \A m \in 1..(n - 1) : response[m] # ch) - 1
    ELSE -1

\* str.rfind: 0-based index of the last occurrence, -1 when absent.
RFind(response, ch) ==
    IF \E n \in 1..Len(response) : response[n] = ch
    THEN (CHOOSE n \in 1..Len(response) :
              /\ response[n] = ch
              /\ \A m \in (n + 1)..Len(response) : response[m] # ch) - 1
    ELSE -1

\* response[start:end] with Python's treatment of negative and large bounds.
Slice(response, start, end) ==
    LET len == Len(response)
        s == IF start < 0 THEN Max(len + start, 0) ELSE Min(start, len)
        e == IF end < 0 THEN Max(len + end, 0) ELSE Min(end, len)
    IN  IF s >= e THEN <<>> ELSE SubSeq(response, s + 1, e)

\* json.loads on a token string: an object is "{" members "}"; a repeated
\* key keeps its last value.  ok = FALSE stands for json.JSONDecodeError.
JsonLoads(s) ==
    IF /\ Len(s) >= 2
       /\ s[1] = "{"
       /\ s[Len(s)] = "}"
       /\ \A n \in 2..(Len(s) - 1) : s[n] \in FieldTokens
    THEN LET keys == { FieldKey(s[n]) : n \in 2..(Len(s) - 1) }
             last(k) == CHOOSE n \in 2..(Len(s) - 1) :
                            /\ FieldKey(s[n]) = k
                            /\ \A m \in (n + 1)..(Len(s) - 1) : FieldKey(s[m]) # k
         IN  [ok |-> TRUE, obj |-> [k \in keys |-> FieldVal(s[last(k)])]]
    ELSE [ok |-> FALSE, obj |-> EmptyMap]

\* ok = FALSE stands for the raised OutputParserException.
clean_json_response(response) ==
    LET start == Find(response, "{")
        end == RFind(response, "}") + 1
    IN  JsonLoads(Slice(response, start, end))

\* extract_metadata after the oracle has answered: the parsed object, or the
\* re-raised OutputParserException.
extract_metadata(response) == clean_json_response(response)

----------------------------------------------------------------------------
\* get_unified_tags

\* The tags of every post of the sequence (lines 87-89).
UniqueTags(posts_with_metadata) ==
    UNION { Range(posts_with_metadata[n]["tags"]) :
                n \in 1..Len(posts_with_metadata) }

\* Mutation: the emptiness check of line 91 never fires.
NoTagsFoundNever(unique_tags) == FALSE

\* `if not unique_tags` (line 91).
NoTagsFound(unique_tags) == unique_tags = {}

\* status: "ok" (a mapping is returned), "NoTags" and "UnifyParse" (an
\* OutputParserException is raised), "KeyError" (post['tags'] on a post
\* without tags).  called: whether the oracle was invoked (line 111).
get_unified_tags(posts_with_metadata, response) ==
    IF \E n \in 1..Len(posts_with_metadata) :
           "tags" \notin DOMAIN posts_with_metadata[n]
    THEN [status |-> "KeyError", called |-> FALSE, tags |-> {}, mapping |-> EmptyMap]
    ELSE LET unique_tags == UniqueTags(posts_with_metadata)
             r == clean_json_response(response)
         IN  IF NoTagsFound(unique_tags)
             THEN [status |-> "NoTags", called |-> FALSE, tags |-> unique_tags,
                   mapping |-> EmptyMap]
             ELSE IF r.ok
                  THEN [status |-> "ok", called |-> TRUE, tags |-> unique_tags,
                        mapping |-> r.obj]
                  ELSE [status |-> "UnifyParse", called |-> TRUE,
                        tags |-> unique_tags, mapping |-> EmptyMap]

----------------------------------------------------------------------------
\* process_posts

\* Mutation: a post with the former 'text' key is accepted as well.
HasCaptionOrText(post) == "caption" \in DOMAIN post \/ "text" \in DOMAIN post

\* `'caption' not in post` (line 19), negated.
HasCaption(post) == "caption" \in DOMAIN post

\* Mutation: metadata | post, the post's own value wins on a shared key.
MergeKeepPost(post, metadata) ==
    [k \in (DOMAIN post) \cup (DOMAIN metadata) |->
        IF k \in DOMAIN post THEN post[k] ELSE metadata[k]]

\* post | metadata (line 25): the right operand wins on a shared key.
Merge(post, metadata) ==
    [k \in (DOMAIN post) \cup (DOMAIN metadata) |->
        IF k \in DOMAIN metadata THEN metadata[k] ELSE post[k]]

\* Mutation: the extraction call is issued a second time.
ExtractionCallsRetry(i) ==
    << [kind |-> "extract", post |-> i, tags |-> {}],
       [kind |-> "extract", post |-> i, tags |-> {}] >>

\* The oracle calls one loop iteration makes for post i (line 24 -> line 77).
ExtractionCalls(i) == << [kind |-> "extract", post |-> i, tags |-> {}] >>

\* Mutation: the except branch appends the post without metadata.
SkipPostKeep(enriched, post) == Append(enriched, post)

\* The except branch of the loop (lines 27-29): nothing is appended.
SkipPost(enriched, post) == enriched

\* Mutation: the loop is left after its first iteration.
LoopFinishedEarly(i, ps) == i > Len(ps) \/ i > 1

\* `for post in posts` has run out (line 17).
LoopFinished(i, ps) == i > Len(ps)

\* `if not enriched_posts` (line 31).
NoEnrichedPosts(enriched) == Len(enriched) = 0

\* Mutation: the except branch of line 37 lacks its return.
AfterUnifyNoReturn(status) ==
    IF status = "KeyError" THEN "crashed" ELSE "rewrite"

\* Where process_posts goes after get_unified_tags (lines 35-39).
AfterUnify(status) ==
    CASE status = "ok" -> "rewrite"
      [] status \in {"NoTags", "UnifyParse"} -> "aborted"
      [] status = "KeyError" -> "crashed"

\* Mutation: unified_tags.get(tag), no fallback to the tag itself.
UnifiedGetNoFallback(mapping, tag) ==
    IF tag \in DOMAIN mapping THEN mapping[tag] ELSE "None"

\* unified_tags.get(tag, tag) (line 43).
UnifiedGet(mapping, tag) ==
    IF tag \in DOMAIN mapping THEN mapping[tag] ELSE tag

\* Mutation: the mapped tags are added to the original tags.
NewTagsKeepOriginal(mapping, current_tags) ==
    { IF current_tags[n] \in DOMAIN mapping THEN mapping[current_tags[n]]
      ELSE current_tags[n] : n \in 1..Len(current_tags) } \cup Range(current_tags)

\* The set comprehension of line 43.
NewTags(mapping, current_tags) ==
    { UnifiedGet(mapping, current_tags[n]) : n \in 1..Len(current_tags) }

\* list(new_tags) (line 44): the set in some iteration order.
ListOf(S) == { s \in [1..Cardinality(S) -> S] : Range(s) = S }

Init ==
    /\ posts = <<>>
    /\ idx = 1
    /\ enriched_posts = <<>>
    /\ unified_tags = EmptyMap
    /\ ridx = 1
    /\ outfile = [state |-> "untouched", content |-> <<>>]
    /\ pc = "load"
    /\ error = "none"
    /\ calls = <<>>
    /\ outcome = <<>>
    /\ enriched_src = <<>>
    /\ metadata_of = <<>>
    /\ merged = <<>>
    /\ unify_returned = FALSE
    /\ write_attempts = 0

\* Lines 9-11: the raw file is read.
Load ==
    /\ pc = "load"
    /\ \E batch \in Batches : posts' = batch
    /\ pc' = "loop"
    /\ UNCHANGED <<idx, enriched_posts, unified_tags, ridx, outfile, error, calls,
                   outcome, enriched_src, metadata_of, merged, unify_returned,
                   write_attempts>>

\* Lines 12-14: the raw file is missing or malformed.
LoadFail ==
    /\ pc = "load"
    /\ error' = "LoadError"
    /\ pc' = "aborted"
    /\ UNCHANGED <<posts, idx, enriched_posts, unified_tags, ridx, outfile, calls,
                   outcome, enriched_src, metadata_of, merged, unify_returned,
                   write_attempts>>

\* Lines 19-21: a post without caption is skipped.
SkipNoCaption ==
    /\ pc = "loop"
    /\ ~LoopFinished(idx, posts)
    /\ ~HasCaption(posts[idx])
    /\ outcome' = Append(outcome, "skipped")
    /\ idx' = idx + 1
    /\ UNCHANGED <<posts, enriched_posts, unified_tags, ridx, outfile, pc, error,
                   calls, enriched_src, metadata_of, merged, unify_returned,
                   write_attempts>>

\* Lines 23-29: one post is sent to extract_metadata and merged or skipped.
ProcessPost ==
    /\ pc = "loop"
    /\ ~LoopFinished(idx, posts)
    /\ HasCaption(posts[idx])
    /\ \E response \in ExtractResponses :
         LET metadata == extract_metadata(response)
         IN  /\ calls' = calls \o ExtractionCalls(idx)
             /\ IF metadata.ok
                THEN LET post_with_metadata == Merge(posts[idx], metadata.obj)
                     IN  /\ enriched_posts' = Append(enriched_posts, post_with_metadata)
                         /\ merged' = Append(merged, post_with_metadata)
                         /\ metadata_of' = Append(metadata_of, metadata.obj)
                         /\ enriched_src' = Append(enriched_src, idx)
                         /\ outcome' = Append(outcome, "ok")
                ELSE /\ enriched_posts' = SkipPost(enriched_posts, posts[idx])
                     /\ outcome' = Append(outcome, "failed")
                     /\ UNCHANGED <<merged, metadata_of, enriched_src>>
    /\ idx' = idx + 1
    /\ UNCHANGED <<posts, unified_tags, ridx, outfile, pc, error, unify_returned,
                   write_attempts>>

\* Lines 31-33: the loop is over; an empty enriched sequence ends the run.
EmptyBatchCheck ==
    /\ pc = "loop"
    /\ LoopFinished(idx, posts)
    /\ IF NoEnrichedPosts(enriched_posts)
       THEN /\ pc' = "aborted"
            /\ error' = "NoEnriched"
       ELSE /\ pc' = "unify"
            /\ UNCHANGED error
    /\ UNCHANGED <<posts, idx, enriched_posts, unified_tags, ridx, outfile, calls,
                   outcome, enriched_src, metadata_of, merged, unify_returned,
                   write_attempts>>

\* Lines 35-39: get_unified_tags is called once.
Unify ==
    /\ pc = "unify"
    /\ \E response \in UnifyResponses :
         LET r == get_unified_tags(enriched_posts, response)
         IN  /\ calls' = IF r.called
                         THEN Append(calls, [kind |-> "unify", post |-> 0,
                                             tags |-> r.tags])
                         ELSE calls
             /\ unified_tags' = r.mapping
             /\ unify_returned' = (r.status = "ok")
             /\ error' = IF r.status = "ok" THEN error ELSE r.status
             /\ pc' = AfterUnify(r.status)
    /\ UNCHANGED <<posts, idx, enriched_posts, ridx, outfile, outcome,
                   enriched_src, metadata_of, merged, write_attempts>>

\* Lines 41-44: one post's tags are rewritten through the mapping.
Rewrite ==
    /\ pc = "rewrite"
    /\ ridx <= Len(enriched_posts)
    /\ LET current_tags == enriched_posts[ridx]["tags"]
           new_tags == NewTags(unified_tags, current_tags)
       IN  \E l \in ListOf(new_tags) :
             enriched_posts' =
                 [enriched_posts EXCEPT ![ridx] = [@ EXCEPT !["tags"] = l]]
    /\ ridx' = ridx + 1
    /\ UNCHANGED <<posts, idx, unified_tags, outfile, pc, error, calls, outcome,
                   enriched_src, metadata_of, merged, unify_returned,
                   write_attempts>>

\* Lines 46-50: the destination is opened for writing and the sequence dumped;
\* an IOError at open or during the dump is caught and reported.
Persist ==
    /\ pc = "rewrite"
    /\ ridx > Len(enriched_posts)
    /\ write_attempts' = write_attempts + 1
    /\ \E result \in {"written", "open_failed", "dump_failed"} :
         /\ outfile' = CASE result = "written" ->
                              [state |-> "written", content |-> enriched_posts]
                         [] result = "open_failed" -> outfile
                         [] result = "dump_failed" ->
                              [state |-> "partial", content |-> <<>>]
         /\ error' = IF result = "written" THEN error ELSE "WriteError"
    /\ pc' = "done"
    /\ UNCHANGED <<posts, idx, enriched_posts, unified_tags, ridx, calls, outcome,
                   enriched_src, metadata_of, merged, unify_returned>>

Next ==
    \/ Load
    \/ LoadFail
    \/ SkipNoCaption
    \/ ProcessPost
    \/ EmptyBatchCheck
    \/ Unify
    \/ Rewrite
    \/ Persist

Spec == Init /\ [][Next]_vars

----------------------------------------------------------------------------
\* Vocabulary of the properties

\* The raw file was read and the loop over posts is over.
LoopOver == pc \in {"unify", "rewrite", "done", "aborted", "crashed"} /\ error # "LoadError"

\* The run has ended after a successful load.
RunOver == pc \in {"done", "aborted", "crashed"} /\ error # "LoadError"

\* Positions of the posts that contain a 'caption' key.
Eligible == { n \in 1..Len(posts) : "caption" \in DOMAIN posts[n] }

ExtractionLog == { c \in 1..Len(calls) : calls[c].kind = "extract" }
UnificationLog == { c \in 1..Len(calls) : calls[c].kind = "unify" }

\* Positions of the posts whose extraction returned an object.
Succeeded == { n \in 1..Len(outcome) : outcome[n] = "ok" }

\* The tag vocabulary of the enriched posts as extraction left them.
AllTagged == \A j \in 1..Len(merged) : "tags" \in DOMAIN merged[j]
Vocabulary == UNION { Range(merged[j]["tags"]) : j \in 1..Len(merged) }

Untouched == outfile.state = "untouched" /\ write_attempts = 0

\* Posts whose tags have been rewritten already.
Rewritten == IF pc \in {"rewrite", "done"} THEN 1..(ridx - 1) ELSE {}

Values(mapping) == { mapping[k] : k \in DOMAIN mapping }

\* The mapping with identity fallback, applied to a set of tags.
Applied(mapping, tags) ==
    { IF t \in DOMAIN mapping THEN mapping[t] ELSE t : t \in tags }

----------------------------------------------------------------------------
\* C1 (as stated): a finished run over a loaded batch with N eligible posts has
\* issued exactly N+1 oracle calls, N extractions and 1 unification, whatever
\* the oracle answered.
C1_ExactlyNPlusOneCalls ==
    RunOver =>
        /\ Cardinality(ExtractionLog) = Cardinality(Eligible)
        /\ Cardinality(UnificationLog) = 1
        /\ Len(calls) = Cardinality(Eligible) + 1

\* C1 (amended): once the loop is over exactly one extraction call per eligible
\* post has been issued; there is never more than one unification call; and a
\* finished run has issued the unification call, N+1 calls in all, exactly when
\* at least one post was enriched, every enriched post has tags and their
\* union is non-empty, and N calls otherwise.
C1_CallCount ==
    /\ Cardinality(UnificationLog) <= 1
    /\ Len(calls) = Cardinality(ExtractionLog) + Cardinality(UnificationLog)
    /\ LoopOver =>
          /\ Cardinality(ExtractionLog) = Cardinality(Eligible)
          /\ \A n \in Eligible :
                Cardinality({ c \in ExtractionLog : calls[c].post = n }) = 1
    /\ RunOver =>
          LET unifiable == Len(merged) > 0 /\ AllTagged /\ Vocabulary # {}
          IN  /\ unifiable <=> Cardinality(UnificationLog) = 1
              /\ Len(calls) = Cardinality(Eligible) + (IF unifiable THEN 1 ELSE 0)

C1_Witness ==
    /\ pc = "done"
    /\ Cardinality(Eligible) >= 2
    /\ Len(calls) = Cardinality(Eligible) + 1

\* C2: the destination is opened for writing only in runs where at least one
\* post was enriched and get_unified_tags returned a mapping; when every
\* eligible post failed extraction or unification failed, the run aborts with
\* the destination untouched.
C2_WriteOnlyAfterUnify ==
    /\ (write_attempts > 0 \/ outfile.state # "untouched") =>
          /\ Len(enriched_posts) > 0
          /\ unify_returned
          /\ UnificationLog # {}
    /\ (LoopOver /\ Succeeded = {}) =>
          pc = "aborted" /\ error = "NoEnriched" /\ Untouched
    /\ error \in {"NoEnriched", "NoTags", "UnifyParse"} =>
          pc = "aborted" /\ ~unify_returned /\ Untouched

C2_Witness ==
    /\ pc = "aborted"
    /\ error = "UnifyParse"
    /\ Len(enriched_posts) > 0
    /\ outfile.state = "untouched"

\* C3: a post whose extraction raised a parse error is not in the enriched
\* sequence and is left as loaded; later eligible posts are still sent to
\* extract_metadata; the enriched sequence holds exactly the eligible posts
\* whose extraction succeeded, in order.
C3_FailedPostDropped ==
    /\ Len(enriched_posts) = Cardinality(Succeeded)
    /\ Len(enriched_src) = Len(enriched_posts)
    /\ \A j \in 1..Len(enriched_src) :
          /\ enriched_src[j] \in Succeeded
          /\ \A h \in 1..(j - 1) : enriched_src[h] < enriched_src[j]
          /\ posts[enriched_src[j]]["caption"] = enriched_posts[j]["caption"]
    /\ \A n \in 1..Len(outcome) :
          outcome[n] = "failed" =>
              /\ posts[n] \in PostVariants
              /\ \A m \in Eligible :
                    (m > n /\ LoopOver) =>
                        /\ outcome[m] \in {"ok", "failed"}
                        /\ \E c \in ExtractionLog : calls[c].post = m
    /\ LoopOver => Len(outcome) = Len(posts)
    /\ outfile.state = "written" => Len(outfile.content) = Cardinality(Succeeded)

C3_Witness ==
    /\ outfile.state = "written"
    /\ \E n, m \in 1..Len(outcome) :
          n < m /\ outcome[n] = "failed" /\ outcome[m] = "ok"

\* C4: for a post without a 'caption' key no oracle call is made, no field is
\* added to it and it is not in the enriched or the written sequence, while
\* the posts after it are still processed.
C4_NoCaptionSkipped ==
    /\ \A n \in 1..Len(posts) :
          "caption" \notin DOMAIN posts[n] =>
              /\ \A c \in 1..Len(calls) : calls[c].post # n
              /\ \A j \in 1..Len(enriched_src) : enriched_src[j] # n
              /\ n <= Len(outcome) => outcome[n] = "skipped"
              /\ posts[n] \in PostVariants
    /\ \A j \in 1..Len(enriched_posts) : "caption" \in DOMAIN enriched_posts[j]
    /\ \A j \in 1..Len(outfile.content) : "caption" \in DOMAIN outfile.content[j]
    /\ LoopOver => Len(outcome) = Len(posts)
    /\ LoopOver => Len(enriched_posts) <= Cardinality(Eligible)

C4_Witness ==
    /\ outfile.state = "written"
    /\ \E n, m \in 1..Len(posts) :
          n < m /\ "caption" \notin DOMAIN posts[n] /\ outcome[m] = "ok"

C6_RewriteWithFallback ==
    \A j \in Rewritten :
        LET original == Range(merged[j]["tags"])
            final == enriched_posts[j]["tags"]
        IN  /\ Range(final) = Applied(unified_tags, original)
            /\ Cardinality(Range(final)) = Len(final)
            /\ \A t \in original \ DOMAIN unified_tags : t \in Range(final)
            /\ \A t \in Range(final) :
                  \/ t \in Values(unified_tags)
                  \/ t \in original /\ t \notin DOMAIN unified_tags
            /\ outfile.state = "written" => outfile.content[j]["tags"] = final

C6_Witness ==
    /\ outfile.state = "written"
    /\ \E j \in 1..Len(merged) :
          /\ Range(merged[j]["tags"]) \cap DOMAIN unified_tags # {}
          /\ Range(merged[j]["tags"]) \ DOMAIN unified_tags # {}

\* C7 (as stated): for any mapping the oracle returned, every tag produced by
\* the rewrite is a fixed point of the rewrite: applying the mapping to the
\* rewritten tags gives the same tag set.
C7_Idempotent ==
    \A j \in Rewritten :
        Applied(unified_tags, Range(enriched_posts[j]["tags"]))
            = Range(enriched_posts[j]["tags"])

\* No value of the mapping is a key that the mapping sends elsewhere.
ValuesAreCanonical(mapping) ==
    \A k \in DOMAIN mapping :
        mapping[k] \in DOMAIN mapping => mapping[mapping[k]] = mapping[k]

\* C7 (amended): when no value of the returned mapping is itself a key mapped
\* to a different tag, applying the mapping to the rewritten tags gives the
\* same tag set.
C7_IdempotentWhenCanonical ==
    ValuesAreCanonical(unified_tags) =>
        \A j \in Rewritten :
            Applied(unified_tags, Range(enriched_posts[j]["tags"]))
                = Range(enriched_posts[j]["tags"])

C7_Witness ==
    /\ pc = "done"
    /\ ValuesAreCanonical(unified_tags)
    /\ \E j \in Rewritten :
          Range(enriched_posts[j]["tags"]) # Range(merged[j]["tags"])

\* C8: every post of the written output has line_count (an integer >= 0),
\* language (English or Hinglish) and tags derived from at most two
\* extracted tags.
C8_OutputWellTyped ==
    outfile.state = "written" =>
        \A j \in 1..Len(outfile.content) :
            /\ {"line_count", "language", "tags"} \subseteq DOMAIN outfile.content[j]
            /\ outfile.content[j]["line_count"] \in Nat
            /\ outfile.content[j]["language"] \in {"English", "Hinglish"}
            /\ Len(merged[j]["tags"]) <= 2
            /\ Len(outfile.content[j]["tags"]) <= 2

\* C9: extraction calls are made in post order, one at a time; the
\* unification call comes after every eligible post's extraction has
\* completed, carries the union of the tags of all enriched posts, and is the
\* last oracle call.
C9_CallOrder ==
    /\ \A a, b \in 1..Len(calls) :
          a < b =>
              /\ calls[a].kind = "extract"
              /\ calls[b].kind = "extract" => calls[a].post < calls[b].post
    /\ \A c \in ExtractionLog :
          /\ calls[c].post <= Len(outcome)
          /\ outcome[calls[c].post] \in {"ok", "failed"}
    /\ \A u \in UnificationLog :
          /\ Len(outcome) = Len(posts)
          /\ \A n \in Eligible : \E c \in 1..(u - 1) : calls[c].post = n
          /\ Len(merged) = Cardinality(Succeeded)
          /\ calls[u].tags = Vocabulary

C9_Witness ==
    /\ \E u \in UnificationLog : u >= 3 /\ Cardinality(calls[u].tags) >= 2
    /\ Cardinality(Succeeded) >= 2

====
